---- MODULE Spec2Model ----
(***************************************************************************)
(* A model of hyper-reverse-proxy (src/src/lib.rs): header hygiene,        *)
(* upgrade detection, forwarding-URL construction, x-forwarded-for         *)
(* annotation, and the call() orchestration with its background relay.     *)
(*                                                                         *)
(* Text is modelled as a sequence of symbols.  A symbol is either one of   *)
(* the delimiter characters the code splits or trims on (",", " ", "?",    *)
(* "&", "=", "/") or an atom standing for a run of other bytes ("Upgrade", *)
(* "websocket", "1.2.3.4", ...).  Two atoms stand for bytes that are not   *)
(* visible ASCII: "e-acute" (a valid multi-byte UTF-8 character) and       *)
(* "0xFF" (a byte that is not valid UTF-8).  hyper accepts both in a       *)
(* header value (obs-text).                                                *)
(***************************************************************************)
EXTENDS Naturals, Sequences, FiniteSets

VARIABLES
    \* ---- one call() and the relay task it may spawn
    pc,                   \* position of the call future
    request,              \* the inbound request: headers, path, query, on_upgrade
    client_ip,            \* the caller's IpAddr
    forward_url,          \* the forward target
    request_upgrade_type, \* lib.rs:401
    request_upgraded,     \* lib.rs:402: whether an OnUpgrade was detached
    proxied_request,      \* what create_proxied_request returned
    response,             \* the origin's response
    result,               \* what the call gave its caller
    relay,                \* position of the spawned relay task
    copied,               \* chunks copied by copy_bidirectional
    \* ---- the header functions applied to one header map
    hIn, hOp, hOut,
    \* ---- forward_uri applied to one (forward_url, path, query)
    uBase, uPath, uQuery, uOut, uDone

callVars == <<pc, request, client_ip, forward_url, request_upgrade_type,
              request_upgraded, proxied_request, response, result, relay, copied>>
hdrVars == <<hIn, hOp, hOut>>
uriVars == <<uBase, uPath, uQuery, uOut, uDone>>
vars == <<callVars, hdrVars, uriVars>>

(***************************************************************************)
(* Bounds of the model.                                                    *)
(***************************************************************************)
MaxReqHeaders == 3   \* header names present in a generated inbound request
MaxRespHeaders == 2  \* header names present in a generated origin response
MaxHdrLen == 3       \* entries of a header map given to the header functions
MaxQueryPairs == 3   \* key=value pairs of a generated request query
MaxBasePairs == 2    \* key=value pairs of a generated forward-target query
MaxCopied == 2       \* chunks the relay copies before the model stops counting

(***************************************************************************)
(* Text                                                                    *)
(***************************************************************************)
\* char::is_whitespace, as used by str::trim
Whitespace == {" "}

\* the bytes HeaderValue::to_str rejects (not visible ASCII)
NonAscii == {"e-acute", "0xFF"}

\* the bytes std::str::from_utf8 rejects
InvalidUtf8 == {"0xFF"}

\* ASCII lower-casing of an atom (eq_ignore_ascii_case, HeaderName parsing)
Lower(sym) ==
    CASE sym = "Upgrade" -> "upgrade"
      [] sym = "UPGRADE" -> "upgrade"
      [] sym = "Foo" -> "foo"
      [] sym = "Bar" -> "bar"
      [] sym = "Trailers" -> "trailers"
      [] OTHER -> sym

LowerStr(s) == [i \in 1..Len(s) |-> Lower(s[i])]

\* str == HeaderName: a case-insensitive comparison with a lower-case name
EqIgnoreCase(s, name) == LowerStr(s) = <<name>>

\* HeaderValue::to_str succeeds
IsText(v) == \A i \in 1..Len(v) : v[i] \notin NonAscii

\* std::str::from_utf8 succeeds
IsUtf8(v) == \A i \in 1..Len(v) : v[i] \notin InvalidUtf8

\* index of the first occurrence of sym in s, 0 when there is none
IndexOf(s, sym) ==
    IF \E i \in 1..Len(s) : s[i] = sym
    THEN CHOOSE i \in 1..Len(s) : s[i] = sym /\ \A j \in 1..(i - 1) : s[j] # sym
    ELSE 0

\* str::split(char): k separators give k + 1 pieces, "" gives one empty piece
RECURSIVE Split(_, _)
Split(s, sep) ==
    LET i == IndexOf(s, sep)
    IN IF i = 0 THEN <<s>>
       ELSE <<SubSeq(s, 1, i - 1)>> \o Split(SubSeq(s, i + 1, Len(s)), sep)

\* str::trim
RECURSIVE Trim(_)
Trim(s) ==
    IF s = <<>> THEN s
    ELSE IF s[1] \in Whitespace THEN Trim(Tail(s))
    ELSE IF s[Len(s)] \in Whitespace THEN Trim(SubSeq(s, 1, Len(s) - 1))
    ELSE s

\* Option<T>
None == [some |-> FALSE, v |-> <<>>]
Some(x) == [some |-> TRUE, v |-> x]

(***************************************************************************)
(* HeaderMap (http crate): a vector of entries, one per name, each with    *)
(* the values of that name in order; names are stored lower-case.          *)
(***************************************************************************)
HasName(h, name) == \E i \in 1..Len(h) : h[i].name = name

EntryIndex(h, name) == CHOOSE i \in 1..Len(h) : h[i].name = name

\* HeaderMap::get: the first value of the name
Get(h, name) ==
    IF HasName(h, name) THEN Some(h[EntryIndex(h, name)].values[1]) ELSE None

\* HeaderMap::remove: the entry is taken out with Vec::swap_remove, so the
\* last entry moves into its place
Remove(h, name) ==
    IF ~HasName(h, name) THEN h
    ELSE LET i == EntryIndex(h, name)
             n == Len(h)
         IN [k \in 1..(n - 1) |-> IF k = i THEN h[n] ELSE h[k]]

\* HeaderMap::insert: replaces all values of the name, or appends an entry
Insert(h, name, value) ==
    IF HasName(h, name)
    THEN [h EXCEPT ![EntryIndex(h, name)].values = <<value>>]
    ELSE Append(h, [name |-> name, values |-> <<value>>])

\* the header name a &str key looks up: lower-cased; a key that is no
\* header name (empty, or with a delimiter in it) finds nothing
KeyName(token) ==
    IF Len(token) = 1 /\ token[1] \notin ({",", " ", "?", "&", "=", "/"} \cup NonAscii)
    THEN Lower(token[1])
    ELSE ""

(***************************************************************************)
(* lib.rs:123-143                                                          *)
(***************************************************************************)
TE_HEADER == "te"
CONNECTION_HEADER == "connection"
UPGRADE_HEADER == "upgrade"
TRAILER_HEADER == "trailer"
TRAILERS_HEADER == "trailers"
X_FORWARDED_FOR == "x-forwarded-for"
HOST == "host"

HOP_HEADERS_plus_trailers ==
    <<"connection", "te", "trailer", "trailers", "keep-alive", "proxy-connection",
      "proxy-authenticate", "proxy-authorization", "transfer-encoding", "upgrade">>

HOP_HEADERS_without_upgrade ==
    <<"connection", "te", "trailer", "keep-alive", "proxy-connection",
      "proxy-authenticate", "proxy-authorization", "transfer-encoding">>

HOP_HEADERS ==
    <<CONNECTION_HEADER, TE_HEADER, TRAILER_HEADER, "keep-alive", "proxy-connection",
      "proxy-authenticate", "proxy-authorization", "transfer-encoding", "upgrade">>

\* lib.rs:177-183
RECURSIVE RemoveAll(_, _)
RemoveAll(h, names) ==
    IF names = <<>> THEN h ELSE RemoveAll(Remove(h, Head(names)), Tail(names))

remove_hop_headers(h) == RemoveAll(h, HOP_HEADERS)

\* the result of a function that may panic
Returned(x) == [panic |-> FALSE, v |-> x]
Panicked == [panic |-> TRUE, v |-> None]

\* .split(',').any(|e| e.trim() == name)
AnyToken(value, name) ==
    LET toks == Split(value, ",")
    IN \E i \in 1..Len(toks) : EqIgnoreCase(Trim(toks[i]), name)

\* lib.rs:185-209; to_str().unwrap() panics on a value that is not text
get_upgrade_type(h) ==
    LET conn == Get(h, CONNECTION_HEADER)
        upg == Get(h, UPGRADE_HEADER)
    IN IF ~conn.some THEN Returned(None)
       ELSE IF ~IsText(conn.v) THEN Panicked
       ELSE IF ~AnyToken(conn.v, UPGRADE_HEADER) THEN Returned(None)
       ELSE IF ~upg.some THEN Returned(None)
       ELSE IF ~IsText(upg.v) THEN Panicked
       ELSE Returned(Some(upg.v))

\* lib.rs:217-221: remove every header a token of the value names
RECURSIVE RemoveListed(_, _)
RemoveListed(h, toks) ==
    IF toks = <<>> THEN h
    ELSE LET name == Trim(Head(toks))
         IN RemoveListed(IF name = <<>> THEN h ELSE Remove(h, KeyName(name)), Tail(toks))

\* lib.rs:211-223
remove_connection_headers(h) ==
    LET conn == Get(h, CONNECTION_HEADER)
    IN IF ~conn.some THEN Returned(h)
       ELSE IF ~IsText(conn.v) THEN [panic |-> TRUE, v |-> h]
       ELSE Returned(RemoveListed(h, Split(conn.v, ",")))

\* lib.rs:225-232
create_proxied_response(h) == remove_connection_headers(remove_hop_headers(h))

(***************************************************************************)
(* forward_uri, lib.rs:234-310                                             *)
(***************************************************************************)
EndsWith(s, sym) == s # <<>> /\ s[Len(s)] = sym

\* chars().next_back(): the string without its last character
DropLast(s) == SubSeq(s, 1, Len(s) - 1)

\* lib.rs:276-279: (parts[0], parts[1] or "")
QueryItem(el) ==
    LET parts == Split(el, "=")
    IN [key |-> parts[1], value |-> IF Len(parts) > 1 THEN parts[2] ELSE <<>>]

\* lib.rs:281-287: parts[0] of every '&'-separated element
QueryKeys(q) ==
    LET els == Split(q, "&")
    IN {Split(els[i], "=")[1] : i \in 1..Len(els)}

\* lib.rs:289-296
RECURSIVE MergeItems(_, _)
MergeItems(els, keys) ==
    IF els = <<>> THEN <<>>
    ELSE LET it == QueryItem(Head(els))
         IN (IF it.key \notin keys
             THEN <<"&">> \o it.key \o <<"=">> \o it.value
             ELSE <<>>) \o MergeItems(Tail(els), keys)

forward_uri(fwd, path2, query) ==
    LET split_url == Split(fwd, "?")
        base0 == split_url[1]
        forward_url_query == IF Len(split_url) > 1 THEN split_url[2] ELSE <<>>
        base_url == IF EndsWith(base0, "/") THEN DropLast(base0) ELSE base0
        q == IF query.some THEN query.v ELSE <<>>
        url1 == base_url \o path2
    IN IF forward_url_query # <<>> \/ (query.some /\ query.v # <<>>)
       THEN IF forward_url_query = <<>>
            THEN url1 \o <<"?">> \o q
            ELSE LET merged == url1 \o <<"?">> \o forward_url_query
                               \o MergeItems(Split(q, "&"), QueryKeys(forward_url_query))
                 IN IF EndsWith(merged, "&") THEN DropLast(merged) ELSE merged
       ELSE url1

(***************************************************************************)
(* create_proxied_request, lib.rs:312-386                                  *)
(***************************************************************************)
\* IpAddr::to_string
IpToString(ip) ==
    CASE ip = "V4(5.6.7.8)" -> <<"5.6.7.8">>
      [] ip = "V6(::1)" -> <<"::1">>

\* str::parse::<hyper::Uri>: a string with a character no URI may hold, or
\* an empty one, does not parse
UriParses(s) == s # <<>> /\ \A i \in 1..Len(s) : s[i] \notin ({" "} \cup NonAscii)

ReqOk(h, uri) == [kind |-> "Ok", err |-> "", headers |-> h, uri |-> uri]
ReqErr(e) == [kind |-> "Err", err |-> e, headers |-> <<>>, uri |-> <<>>]
ReqPanic(why) == [kind |-> "Panic", err |-> why, headers |-> <<>>, uri |-> <<>>]
NoRequest == [kind |-> "Pending", err |-> "", headers |-> <<>>, uri |-> <<>>]

\* lib.rs:352-361
RepopulateUpgrade(h, upgrade_type) ==
    IF upgrade_type.some
    THEN Insert(Insert(h, UPGRADE_HEADER, upgrade_type.v), CONNECTION_HEADER, <<"UPGRADE">>)
    ELSE h

\* lib.rs:363-381: a vacant entry gets the client's address; an occupied one
\* has the merged string built (from_utf8().unwrap()) and dropped
AddForwardedFor(h, ip) ==
    LET existing == Get(h, X_FORWARDED_FOR)
    IN IF ~existing.some THEN Returned(Insert(h, X_FORWARDED_FOR, IpToString(ip)))
       ELSE IF ~IsUtf8(existing.v) THEN [panic |-> TRUE, v |-> h]
       ELSE Returned(h)

create_proxied_request(ip, fwd, req, upgrade_type) ==
    LET te == Get(req.headers, TE_HEADER)
        uri == forward_uri(fwd, req.path, req.query)
        h1 == Remove(req.headers, HOST)
        h2 == remove_hop_headers(h1)
        h3 == remove_connection_headers(h2)
        h4 == IF te.some /\ AnyToken(te.v, TRAILERS_HEADER)
              THEN Insert(h3.v, TE_HEADER, <<"trailers">>) ELSE h3.v
        h5 == RepopulateUpgrade(h4, upgrade_type)
        h6 == AddForwardedFor(h5, ip)
    IN IF te.some /\ ~IsText(te.v) THEN ReqPanic("header-decode")
       ELSE IF ~UriParses(uri) THEN ReqErr("InvalidUri")
       ELSE IF h3.panic THEN ReqPanic("header-decode")
       ELSE IF h6.panic THEN ReqPanic("header-decode")
       ELSE ReqOk(h6.v, uri)

(***************************************************************************)
(* The inputs of one call                                                  *)
(***************************************************************************)
Entry(name, value) == [name |-> name, values |-> <<value>>]

\* header maps holding at most k of the names, each with one of its values
RECURSIVE HeaderMaps(_, _, _)
HeaderMaps(names, vals, k) ==
    IF names = <<>> \/ k = 0 THEN {<<>>}
    ELSE HeaderMaps(Tail(names), vals, k)
         \cup {<<Entry(Head(names), v)>> \o m :
                 v \in vals[Head(names)], m \in HeaderMaps(Tail(names), vals, k - 1)}

ReqNames == <<"connection", "upgrade", "te", "x-forwarded-for", "foo", "bar", "host">>

ReqValues ==
    [name \in {ReqNames[i] : i \in 1..Len(ReqNames)} |->
    CASE name = "connection" ->
           {<<"keep-alive", ",", " ", "Upgrade">>, <<"Foo", ",", " ", "Bar">>, <<"0xFF">>}
      [] name = "upgrade" -> {<<"websocket">>, <<"0xFF">>}
      [] name = "te" -> {<<"gzip", ",", " ", "Trailers">>, <<"e-acute">>}
      [] name = "x-forwarded-for" -> {<<"1.2.3.4">>, <<"0xFF">>}
      [] name = "foo" -> {<<"1">>}
      [] name = "bar" -> {<<"2">>}
      [] name = "host" -> {<<"proxy.example">>}]

Requests ==
    [headers : HeaderMaps(ReqNames, ReqValues, MaxReqHeaders),
     path : {<<"/", "p">>},
     query : {Some(<<"x", "=", "2", "&", "y", "=", "3">>)},
     on_upgrade : BOOLEAN]

ClientIps == {"V4(5.6.7.8)", "V6(::1)"}

ForwardUrls == {<<"http://h", "/", "base", "?", "x", "=", "1">>, <<"http://h", " ", "/">>}

SWITCHING_PROTOCOLS == 101

RespNames == <<"connection", "upgrade", "foo", "bar">>

RespValues ==
    [name \in {RespNames[i] : i \in 1..Len(RespNames)} |->
    CASE name = "connection" -> {<<"upgrade">>, <<"Foo", ",", "Bar">>, <<"0xFF">>}
      [] name = "upgrade" -> {<<"websocket">>, <<"h2c">>}
      [] name = "foo" -> {<<"1">>}
      [] name = "bar" -> {<<"2">>}]

Responses ==
    [status : {SWITCHING_PROTOCOLS, 200},
     headers : HeaderMaps(RespNames, RespValues, MaxRespHeaders)
               \cup {<<Entry("connection", <<"Foo", ",", "Bar">>), Entry("foo", <<"1">>),
                       Entry("bar", <<"2">>)>>},
     on_upgrade : BOOLEAN]

NoResponse == [status |-> 0, headers |-> <<>>, on_upgrade |-> FALSE]

(***************************************************************************)
(* call, lib.rs:388-452, and the relay task it spawns                      *)
(***************************************************************************)
Pending == [kind |-> "Pending", err |-> "", status |-> 0, headers |-> <<>>]
Ok(resp, h) == [kind |-> "Ok", err |-> "", status |-> resp.status, headers |-> h]
Err(e) == [kind |-> "Err", err |-> e, status |-> 0, headers |-> <<>>]
Panic(why) == [kind |-> "Panic", err |-> why, status |-> 0, headers |-> <<>>]

Init ==
    /\ pc = "start"
    /\ request \in Requests
    /\ client_ip \in ClientIps
    /\ forward_url \in ForwardUrls
    /\ request_upgrade_type = None
    /\ request_upgraded = FALSE
    /\ proxied_request = NoRequest
    /\ response = NoResponse
    /\ result = Pending
    /\ relay = "none"
    /\ copied = 0
    /\ hIn = <<>> /\ hOp = "none" /\ hOut = <<>>
    /\ uBase = <<>> /\ uPath = <<>> /\ uQuery = None /\ uOut = <<>> /\ uDone = FALSE

\* lib.rs:401-410, up to the await of client.request
CallStart ==
    /\ pc = "start"
    /\ LET ut == get_upgrade_type(request.headers)
           pr == create_proxied_request(client_ip, forward_url, request, ut.v)
       IN IF ut.panic
          THEN /\ result' = Panic("header-decode")
               /\ pc' = "done"
               /\ UNCHANGED <<request_upgrade_type, request_upgraded, proxied_request>>
          ELSE /\ request_upgrade_type' = ut.v
               /\ request_upgraded' = request.on_upgrade
               /\ proxied_request' = pr
               /\ pc' = IF pr.kind = "Ok" THEN "sent" ELSE "done"
               /\ result' = CASE pr.kind = "Ok" -> Pending
                              [] pr.kind = "Err" -> Err(pr.err)
                              [] pr.kind = "Panic" -> Panic(pr.err)
    /\ UNCHANGED <<request, client_ip, forward_url, response, relay, copied, hdrVars, uriVars>>

\* lib.rs:410: client.request(...).await? fails
TransportFails ==
    /\ pc = "sent"
    /\ result' = Err("HyperError")
    /\ pc' = "done"
    /\ UNCHANGED <<request, client_ip, forward_url, request_upgrade_type, request_upgraded,
                   proxied_request, response, relay, copied, hdrVars, uriVars>>

\* lib.rs:412-451, the response in hand, up to the await of the origin's OnUpgrade
HandleResponse(resp) ==
    IF resp.status = SWITCHING_PROTOCOLS
    THEN LET response_upgrade_type == get_upgrade_type(resp.headers)
         IN IF response_upgrade_type.panic THEN Panic("header-decode")
            ELSE IF request_upgrade_type = response_upgrade_type.v
            THEN IF request_upgraded
                 THEN IF resp.on_upgrade THEN Pending
                      ELSE Panic("response does not have an upgrade extension")
                 ELSE Err("UpgradeError")
            ELSE Err("UpgradeError")
    ELSE LET proxied_response == create_proxied_response(resp.headers)
         IN IF proxied_response.panic THEN Panic("header-decode")
            ELSE Ok(resp, proxied_response.v)

TransportResponds ==
    /\ pc = "sent"
    /\ \E resp \in Responses :
         /\ response' = resp
         /\ result' = HandleResponse(resp)
         /\ pc' = IF HandleResponse(resp) = Pending THEN "awaitOriginUpgrade" ELSE "done"
    /\ UNCHANGED <<request, client_ip, forward_url, request_upgrade_type, request_upgraded,
                   proxied_request, relay, copied, hdrVars, uriVars>>

\* lib.rs:417-421: the origin's OnUpgrade resolves with an error
OriginUpgradeFails ==
    /\ pc = "awaitOriginUpgrade"
    /\ result' = Err("HyperError")
    /\ pc' = "done"
    /\ UNCHANGED <<request, client_ip, forward_url, request_upgrade_type, request_upgraded,
                   proxied_request, response, relay, copied, hdrVars, uriVars>>

\* lib.rs:417-432: the origin's connection is converted, the relay task is spawned
SpawnRelay ==
    /\ pc = "awaitOriginUpgrade"
    /\ relay' = "spawned"
    /\ pc' = "spawned"
    /\ UNCHANGED <<request, client_ip, forward_url, request_upgrade_type, request_upgraded,
                   proxied_request, response, result, copied, hdrVars, uriVars>>

\* lib.rs:434: Ok(response), in the same poll as the spawn
CallReturn ==
    /\ pc = "spawned"
    /\ result' = Ok(response, response.headers)
    /\ pc' = "done"
    /\ UNCHANGED <<request, client_ip, forward_url, request_upgrade_type, request_upgraded,
                   proxied_request, response, relay, copied, hdrVars, uriVars>>

\* lib.rs:425-427: the task's first poll; it may run on another worker before
\* the call has returned, and finds the client's OnUpgrade pending
RelayStart ==
    /\ relay = "spawned"
    /\ relay' = "awaitClient"
    /\ UNCHANGED <<pc, request, client_ip, forward_url, request_upgrade_type,
                   request_upgraded, proxied_request, response, result, copied,
                   hdrVars, uriVars>>

\* lib.rs:426-427: request_upgraded.await resolves.  The server resolves the
\* client's OnUpgrade when it has the call's response to send, and the call is
\* polled by the connection that owns it, so not before the call has returned.
ClientUpgradeOk ==
    /\ relay = "awaitClient"
    /\ pc = "done"
    /\ relay' = "copying"
    /\ UNCHANGED <<pc, request, client_ip, forward_url, request_upgrade_type,
                   request_upgraded, proxied_request, response, result, copied,
                   hdrVars, uriVars>>

\* what a failure inside the relay task does to the call's result: nothing,
\* the task is detached and its JoinHandle dropped (lib.rs:425)
RelayFailureSurfaced(r) == Err("HyperError")

ResultAfterRelayFailure(r) == r

\* lib.rs:427: expect("failed to upgrade request") panics inside the task
ClientUpgradeFails ==
    /\ relay = "awaitClient"
    /\ pc = "done"
    /\ relay' = "panicked"
    /\ result' = ResultAfterRelayFailure(result)
    /\ UNCHANGED <<pc, request, client_ip, forward_url, request_upgrade_type,
                   request_upgraded, proxied_request, response, copied, hdrVars, uriVars>>

\* lib.rs:429: copy_bidirectional moves a chunk
RelayCopy ==
    /\ relay = "copying"
    /\ copied < MaxCopied
    /\ copied' = copied + 1
    /\ UNCHANGED <<pc, request, client_ip, forward_url, request_upgrade_type,
                   request_upgraded, proxied_request, response, result, relay,
                   hdrVars, uriVars>>

\* lib.rs:429-430: either side reaches end-of-stream
RelayEof ==
    /\ relay = "copying"
    /\ relay' = "closed"
    /\ UNCHANGED <<pc, request, client_ip, forward_url, request_upgrade_type,
                   request_upgraded, proxied_request, response, result, copied,
                   hdrVars, uriVars>>

\* lib.rs:429-431: an I/O error; expect(...) panics inside the task
RelayIoError ==
    /\ relay = "copying"
    /\ relay' = "panicked"
    /\ result' = ResultAfterRelayFailure(result)
    /\ UNCHANGED <<pc, request, client_ip, forward_url, request_upgrade_type,
                   request_upgraded, proxied_request, response, copied, hdrVars, uriVars>>

Next ==
    \/ CallStart
    \/ TransportFails
    \/ TransportResponds
    \/ OriginUpgradeFails
    \/ SpawnRelay
    \/ CallReturn
    \/ RelayStart
    \/ ClientUpgradeOk
    \/ ClientUpgradeFails
    \/ RelayCopy
    \/ RelayEof
    \/ RelayIoError

Spec == Init /\ [][Next]_vars

(***************************************************************************)
(* The header functions applied to one header map                          *)
(***************************************************************************)
HdrEntries ==
    {[name |-> "connection", values |-> vs] :
        vs \in {<<<<"Upgrade">>>>, <<<<"keep-alive", ",", " ", "upgrade", " ">>>>,
                <<<<"close">>>>, <<<<"0xFF">>>>, <<<<"close">>, <<"upgrade">>>>}}
    \cup {[name |-> "upgrade", values |-> vs] :
        vs \in {<<<<"websocket">>>>, <<<<"0xFF">>>>, <<<<"h2c">>, <<"websocket">>>>}}
    \cup {Entry(n, <<"v">>) :
        n \in {"te", "trailer", "keep-alive", "proxy-connection", "proxy-authenticate",
               "proxy-authorization", "transfer-encoding", "trailers", "foo"}}
    \cup {[name |-> "bar", values |-> <<<<"v">>, <<"w">>>>]}

\* header maps of at most k entries, in every order
RECURSIVE OrderedHeaderMaps(_)
OrderedHeaderMaps(k) ==
    IF k = 0 THEN {<<>>}
    ELSE LET shorter == OrderedHeaderMaps(k - 1)
         IN shorter \cup {Append(m, e) : m \in shorter, e \in HdrEntries}

DistinctNames(h) == \A i, j \in 1..Len(h) : h[i].name = h[j].name => i = j

InitHeaders ==
    /\ hIn \in {m \in OrderedHeaderMaps(MaxHdrLen) : DistinctNames(m)}
    /\ hOp = "none"
    /\ hOut = <<>>
    /\ pc = "idle"
    /\ request = [headers |-> <<>>, path |-> <<>>, query |-> None, on_upgrade |-> FALSE]
    /\ client_ip = "V4(5.6.7.8)"
    /\ forward_url = <<>>
    /\ request_upgrade_type = None
    /\ request_upgraded = FALSE
    /\ proxied_request = NoRequest
    /\ response = NoResponse
    /\ result = Pending
    /\ relay = "none"
    /\ copied = 0
    /\ uBase = <<>> /\ uPath = <<>> /\ uQuery = None /\ uOut = <<>> /\ uDone = FALSE

ApplyRemoveHopHeaders ==
    /\ hOp = "none"
    /\ hOp' = "remove_hop_headers"
    /\ hOut' = remove_hop_headers(hIn)
    /\ UNCHANGED <<hIn, callVars, uriVars>>

ApplyGetUpgradeType ==
    /\ hOp = "none"
    /\ hOp' = "get_upgrade_type"
    /\ hOut' = get_upgrade_type(hIn)
    /\ UNCHANGED <<hIn, callVars, uriVars>>

ApplyCreateProxiedResponse ==
    /\ hOp = "none"
    /\ hOp' = "create_proxied_response"
    /\ hOut' = create_proxied_response(hIn)
    /\ UNCHANGED <<hIn, callVars, uriVars>>

NextHeaders == ApplyRemoveHopHeaders \/ ApplyGetUpgradeType \/ ApplyCreateProxiedResponse

SpecHeaders == InitHeaders /\ [][NextHeaders]_vars

(***************************************************************************)
(* forward_uri applied to one forward target, request path and query       *)
(***************************************************************************)
\* the query strings of 1..k of the pairs, joined by '&'
RECURSIVE QueryStrings(_, _)
QueryStrings(pairs, k) ==
    IF k <= 1 THEN pairs
    ELSE LET shorter == QueryStrings(pairs, k - 1)
         IN shorter \cup {t \o <<"&">> \o pr : t \in shorter, pr \in pairs}

BaseBodies == {<<"http://h", "/", "base">>, <<"http://h", "/">>}

BasePairs == {<<"x", "=", "1">>, <<"y", "=", "1">>, <<"z">>}

BaseUrls ==
    BaseBodies
    \cup {b \o <<"?">> \o q :
            b \in BaseBodies, q \in {<<>>} \cup QueryStrings(BasePairs, MaxBasePairs)}

RequestPairs == {<<"x", "=", "2">>, <<"y", "=", "3">>, <<"w", "=", "4">>, <<"v">>}

RequestQueries ==
    {None, Some(<<>>)} \cup {Some(q) : q \in QueryStrings(RequestPairs, MaxQueryPairs)}

InitUri ==
    /\ uBase \in BaseUrls
    /\ uPath \in {<<"/", "p">>, <<"/", "a">>}
    /\ uQuery \in RequestQueries
    /\ uOut = <<>>
    /\ uDone = FALSE
    /\ hIn = <<>> /\ hOp = "none" /\ hOut = <<>>
    /\ pc = "idle"
    /\ request = [headers |-> <<>>, path |-> <<>>, query |-> None, on_upgrade |-> FALSE]
    /\ client_ip = "V4(5.6.7.8)"
    /\ forward_url = <<>>
    /\ request_upgrade_type = None
    /\ request_upgraded = FALSE
    /\ proxied_request = NoRequest
    /\ response = NoResponse
    /\ result = Pending
    /\ relay = "none"
    /\ copied = 0

ApplyForwardUri ==
    /\ ~uDone
    /\ uDone' = TRUE
    /\ uOut' = forward_uri(uBase, uPath, uQuery)
    /\ UNCHANGED <<uBase, uPath, uQuery, callVars, hdrVars>>

NextUri == ApplyForwardUri

SpecUri == InitUri /\ [][NextUri]_vars

(***************************************************************************)
(* The claims                                                              *)
(***************************************************************************)
\* the header names the tokens of the connection header name
ListedNames(h) ==
    LET conn == Get(h, "connection")
        toks == Split(conn.v, ",")
    IN IF conn.some THEN {KeyName(Trim(toks[i])) : i \in 1..Len(toks)} \ {""} ELSE {}

\* C1: hygiene removes every header a token of the connection header names,
\* besides the fixed set: the outbound request holds no header the inbound
\* connection header lists (the upgrade, connection and te headers the code
\* re-inserts on purpose aside), and a non-101 response returned to the caller
\* holds neither a connection header nor a header its connection header lists.
C1_ListedHeadersRemoved ==
    /\ proxied_request.kind = "Ok" =>
         /\ \A n \in ListedNames(request.headers) \ {"connection", "upgrade", "te"} :
               ~HasName(proxied_request.headers, n)
         /\ ~request_upgrade_type.some => ~HasName(proxied_request.headers, "connection")
    /\ (result.kind = "Ok" /\ response.status # 101) =>
         \A n \in ListedNames(response.headers) \cup {"connection"} :
            ~HasName(result.headers, n)

\* the upgrade type detected on the response differs from the request's
TypesDiffer ==
    LET rt == get_upgrade_type(response.headers)
    IN ~rt.panic /\ rt.v # request_upgrade_type

\* C2: once the origin has answered 101, if the inbound request carried no
\* upgrade handle or the detected upgrade types differ, the call's result is an
\* UpgradeError and the relay task is never started.
C2_UpgradeErrorAndNoRelay ==
    (response.status = 101 /\ (~request_upgraded \/ TypesDiffer)) =>
        (result = Err("UpgradeError") /\ relay = "none" /\ copied = 0)

\* the relay task has got as far as the conversion of the client's connection
ClientConversionTried == relay \in {"copying", "closed", "panicked"}

\* C3: after a 101 with matching types and a request handle, the call returns
\* the origin's 101 response once the origin side is converted and the relay
\* spawned: the result is there before the client side is converted, the
\* return does not wait for the relay, and no relay outcome changes the result.
C3_ResultBeforeRelay ==
    /\ [](ClientConversionTried =>
            result = [kind |-> "Ok", err |-> "", status |-> 101,
                      headers |-> response.headers])
    /\ []((relay # "none" /\ pc = "done") => (result.kind = "Ok" /\ result.status = 101))
    /\ [](pc = "spawned" => ENABLED CallReturn)
    /\ [][result # Pending => result' = result]_vars
    /\ [][(pc = "spawned" /\ pc' = "done") =>
            (relay' \in {"spawned", "awaitClient"} /\ result'.kind = "Ok"
             /\ result'.status = 101)]_vars

\* C3 witness: the relay failed in copy_bidirectional after copying, and the
\* caller holds the 101 response
C3_Witness ==
    /\ relay = "panicked"
    /\ copied > 0
    /\ result.kind = "Ok"
    /\ result.status = 101

\* C4: the outbound x-forwarded-for is the client's address when the inbound
\* request had none, and "<existing>, <client>" when it had one.
C4_ForwardedForAppended ==
    proxied_request.kind = "Ok" =>
        LET existing == Get(request.headers, "x-forwarded-for")
        IN Get(proxied_request.headers, "x-forwarded-for")
             = Some(IF existing.some
                    THEN existing.v \o <<",", " ">> \o IpToString(client_ip)
                    ELSE IpToString(client_ip))

\* C6: every failure of a call reaches the caller as an error result: a call
\* that has ended has produced Ok or Err, it has not aborted.
C6_FailuresAreResults == pc = "done" => result.kind \in {"Ok", "Err"}

\* C9: the outbound request has the upgrade type of the inbound one; with type U
\* it carries upgrade: U and a connection header listing upgrade, with none it
\* carries neither header.
C9_UpgradeIntentSurvives ==
    proxied_request.kind = "Ok" =>
        LET inbound == get_upgrade_type(request.headers)
            outbound == get_upgrade_type(proxied_request.headers)
            h == proxied_request.headers
        IN /\ ~inbound.panic
           /\ outbound = inbound
           /\ inbound.v.some =>
                /\ h[EntryIndex(h, "upgrade")].values = <<inbound.v.v>>
                /\ HasName(h, "connection")
                /\ AnyToken(Get(h, "connection").v, "upgrade")
           /\ ~inbound.v.some => (~HasName(h, "connection") /\ ~HasName(h, "upgrade"))

\* C9 witness: a request that asked for an upgrade among other connection
\* tokens has been turned into an outbound request
C9_Witness ==
    /\ proxied_request.kind = "Ok"
    /\ request_upgrade_type = Some(<<"websocket">>)
    /\ Get(request.headers, "connection") = Some(<<"keep-alive", ",", " ", "Upgrade">>)
    /\ pc = "sent"

\* C10: whenever the relay task has been spawned, the inbound request's
\* detected upgrade type was present.
C10_RelayOnlyOnUpgradeIntent == relay # "none" => request_upgrade_type.some

\* C7: get_upgrade_type returns the (first) value of the upgrade header exactly
\* when the connection header is present, one of its comma-separated tokens is
\* "upgrade" after trimming and ignoring case, and an upgrade header is
\* present; in every other case it returns none.
C7_UpgradeTypeDetected ==
    hOp = "get_upgrade_type" =>
        LET toks == Split(Get(hIn, "connection").v, ",")
            listed == /\ HasName(hIn, "connection")
                      /\ \E i \in 1..Len(toks) : LowerStr(Trim(toks[i])) = <<"upgrade">>
        IN hOut = [panic |-> FALSE,
                   v |-> IF listed /\ HasName(hIn, "upgrade")
                         THEN Some(Get(hIn, "upgrade").v) ELSE None]

\* the nine names C8 lists
FixedNames ==
    {"connection", "te", "trailer", "keep-alive", "proxy-connection", "proxy-authenticate",
     "proxy-authorization", "transfer-encoding", "upgrade"}

IsKept(e) == e.name \notin FixedNames

ClaimedPair(el) ==
    LET i == IndexOf(el, "=")
    IN IF i = 0 THEN [key |-> el, value |-> <<>>]
       ELSE [key |-> SubSeq(el, 1, i - 1), value |-> SubSeq(el, i + 1, Len(el))]

RECURSIVE ClaimedAppend(_, _)
ClaimedAppend(els, baseKeys) ==
    IF els = <<>> THEN <<>>
    ELSE LET pr == ClaimedPair(Head(els))
         IN (IF pr.key \in baseKeys THEN <<>>
             ELSE <<"&">> \o pr.key \o <<"=">> \o pr.value)
            \o ClaimedAppend(Tail(els), baseKeys)

ClaimedUri(base, path, query) ==
    LET i == IndexOf(base, "?")
        body0 == SubSeq(base, 1, i - 1)
        baseBody == IF body0 # <<>> /\ body0[Len(body0)] = "/"
                    THEN SubSeq(body0, 1, Len(body0) - 1) ELSE body0
        baseQuery == SubSeq(base, i + 1, Len(base))
        basePairs == Split(baseQuery, "&")
        baseKeys == {ClaimedPair(basePairs[k]).key : k \in 1..Len(basePairs)}
        q == IF query.some THEN query.v ELSE <<>>
    IN baseBody \o path \o <<"?">> \o baseQuery
       \o (IF q = <<>> THEN <<>> ELSE ClaimedAppend(Split(q, "&"), baseKeys))

\* C5: for a forward target with a non-empty query, forward_uri gives baseBody
\* (less one trailing '/') + path + '?' + baseQuery, then '&' key '=' value for
\* each request pair whose key is no key of baseQuery, in request order, and
\* nothing else; an empty request query appends nothing.
C5_QueryMerged ==
    (uDone /\ IndexOf(uBase, "?") # 0 /\ IndexOf(uBase, "?") < Len(uBase)) =>
        uOut = ClaimedUri(uBase, uPath, uQuery)

====
